---- MODULE Spec2Model ----
(***************************************************************************)
(* TaskManager (src/task_manager.py): the goal-to-completion loop of the   *)
(* task planner, its constructor and its JSON persistence.                 *)
(*                                                                         *)
(* The constructor, _load_persist and _save_persist are translated from    *)
(* task_manager.py (Lnnn are its lines).  run(), createInitialTasks,       *)
(* executeNextTask, refine and repairJson follow spec.md section 4.1 and   *)
(* are marked so where they appear.                                        *)
(***************************************************************************)
EXTENDS Naturals, Sequences, FiniteSets, TLC

VARIABLES
    args,        \* the constructor arguments of the TaskManager (fixed for a program)
    tm,          \* the TaskManager instance: its fields
    file,        \* the file at the persistence path
    pc,          \* position of run(): idle, create, loop, refine, done, fatal
    task,        \* the task popped by executeNextTask
    result,      \* the textual result of the executed task
    attempts,    \* repair prompts sent for the response being parsed
    callbacks,   \* invocations of complete_func during the current run()
    startedDone, \* the current run() was entered with no task and GoalComplete set
    iterStart,   \* the fields of tm when the current loop iteration began
    saved,       \* what the last _save_persist was given to write
    lastDoc,     \* the parsed response applied by the last step
    lastOp       \* the operation that produced this state

vars == <<args, tm, file, pc, task, result, attempts, callbacks,
          startedDone, iterStart, saved, lastDoc, lastOp>>

----------------------------------------------------------------------------
(* Bounds and universes *)

MaxTasks == 2            \* longest task list a response, an argument or a file holds
MaxRetries == 2          \* repair prompts allowed for one malformed response

Goals == {"list three colors"}
Tasks == {"t1", "t2"}
Results == {"r1"}
NoPath == ""             \* persist=None (any falsy value takes the same branch at L159)
Path == "state.json"

EmptyDict == [k \in {} |-> ""]
EmptyList == <<>>

DictsOver(K, V) == UNION {[S -> V] : S \in SUBSET K}

TaskLists == UNION {[1..n -> Tasks] : n \in 0..MaxTasks}
InfoDicts == DictsOver({"username"}, {"amasad"})
ResultDicts == DictsOver({"colors"}, {"rgb"})

PersistKeys == {"stored_info", "final_result", "current_tasks", "completed_tasks"}

----------------------------------------------------------------------------
(* JSON text (json.dump, L120; json.load, L108).  A text is a tagged       *)
(* token: a string <<"str", s>>, an array <<"arr", texts>>, or an object    *)
(* <<"obj", members>> with members <<key, text>> in writing order.         *)
(* Reading an object keeps, for a key written more than once, its last      *)
(* member.                                                                  *)

json_dump_str(x) == <<"str", x>>

json_dump_list(l) == <<"arr", [i \in DOMAIN l |-> json_dump_str(l[i])]>>

RECURSIVE dump_members(_, _)
dump_members(d, S) ==
    IF S = {} THEN <<>>
    ELSE LET k == CHOOSE x \in S : TRUE
         IN  <<<<k, json_dump_str(d[k])>>>> \o dump_members(d, S \ {k})

json_dump_dict(d) == <<"obj", dump_members(d, DOMAIN d)>>

RECURSIVE json_load(_)
json_load(t) ==
    CASE t[1] = "str" -> t[2]
      [] t[1] = "arr" -> [i \in DOMAIN t[2] |-> json_load(t[2][i])]
      [] t[1] = "obj" ->
            LET m == t[2]
                last(k) == CHOOSE i \in DOMAIN m :
                              /\ m[i][1] = k
                              /\ \A j \in DOMAIN m : m[j][1] = k => j <= i
            IN  [k \in {m[i][1] : i \in DOMAIN m} |-> json_load(m[last(k)][2])]

(* dict.get(key, default), L113-116 *)
get(d, k, default) == IF k \in DOMAIN d THEN d[k] ELSE default

NoFile == [exists |-> FALSE, text |-> <<"obj", <<>>>>]

----------------------------------------------------------------------------
(* TaskManager._load_persist, L105-116 *)

_load_persist_swapped_key(self, f) ==
    LET saved_ == IF f.exists THEN json_load(f.text) ELSE EmptyDict
    IN  [self EXCEPT
            !.stored_info = get(saved_, "stored_info", EmptyDict),
            !.final_result = get(saved_, "stored_info", EmptyDict),
            !.current_tasks = get(saved_, "current_tasks", EmptyList),
            !.completed_tasks = get(saved_, "completed_tasks", EmptyDict)]

_load_persist_keep_when_missing(self, f) ==
    IF ~f.exists THEN self
    ELSE LET saved_ == json_load(f.text)
         IN  [self EXCEPT
                 !.stored_info = get(saved_, "stored_info", EmptyDict),
                 !.final_result = get(saved_, "final_result", EmptyDict),
                 !.current_tasks = get(saved_, "current_tasks", EmptyList),
                 !.completed_tasks = get(saved_, "completed_tasks", EmptyDict)]

_load_persist(self, f) ==
    LET saved_ == IF f.exists THEN json_load(f.text) ELSE EmptyDict
    IN  [self EXCEPT
            !.stored_info = get(saved_, "stored_info", EmptyDict),
            !.final_result = get(saved_, "final_result", EmptyDict),
            !.current_tasks = get(saved_, "current_tasks", EmptyList),
            !.completed_tasks = get(saved_, "completed_tasks", EmptyDict)]

(* TaskManager._save_persist, L118-126: the file it leaves at self.persist *)

_save_persist_without_completed(self) ==
    [exists |-> TRUE,
     text |-> <<"obj",
                << <<"stored_info", json_dump_dict(self.stored_info)>>,
                   <<"final_result", json_dump_dict(self.final_result)>>,
                   <<"current_tasks", json_dump_list(self.current_tasks)>> >> >>]

_save_persist(self) ==
    [exists |-> TRUE,
     text |-> <<"obj",
                << <<"stored_info", json_dump_dict(self.stored_info)>>,
                   <<"final_result", json_dump_dict(self.final_result)>>,
                   <<"current_tasks", json_dump_list(self.current_tasks)>>,
                   <<"completed_tasks", json_dump_dict(self.completed_tasks)>> >> >>]

(* An optional argument: None, or a value.  `x or default` (L152, L155,      *)
(* L156) gives the default for None and for an empty (falsy) value.         *)
None == [none |-> TRUE]
Some(v) == [none |-> FALSE, v |-> v]

or_default(x, default) ==
    IF x.none THEN default
    ELSE IF x.v = <<>> THEN default
    ELSE x.v

(* TaskManager.__init__, L144-157: the fields it assigns.  goal_completed   *)
(* is the class attribute of L28, which the constructor does not assign.    *)

assign_fields_default_allow(a) ==
    [final_goal |-> a.goal,
     allow_repeat_tasks |-> TRUE,
     completed_tasks |-> or_default(a.completed_tasks, EmptyDict),
     persist |-> a.persist,
     current_tasks |-> or_default(a.current_tasks, EmptyList),
     final_result |-> or_default(a.final_result, EmptyDict),
     stored_info |-> EmptyDict,
     goal_completed |-> FALSE]

assign_fields_no_goal(a) ==
    [final_goal |-> "",
     allow_repeat_tasks |-> a.allow_repeat_tasks,
     completed_tasks |-> or_default(a.completed_tasks, EmptyDict),
     persist |-> a.persist,
     current_tasks |-> or_default(a.current_tasks, EmptyList),
     final_result |-> or_default(a.final_result, EmptyDict),
     stored_info |-> EmptyDict,
     goal_completed |-> FALSE]

assign_fields(a) ==
    [final_goal |-> a.goal,
     allow_repeat_tasks |-> a.allow_repeat_tasks,
     completed_tasks |-> or_default(a.completed_tasks, EmptyDict),
     persist |-> a.persist,
     current_tasks |-> or_default(a.current_tasks, EmptyList),
     final_result |-> or_default(a.final_result, EmptyDict),
     stored_info |-> EmptyDict,
     goal_completed |-> FALSE]

(* TaskManager.__init__, L128-161 *)

__init___arguments_win(a, f) ==
    IF a.persist /= NoPath
    THEN [_load_persist(assign_fields(a), f) EXCEPT
             !.completed_tasks = or_default(a.completed_tasks, @),
             !.current_tasks = or_default(a.current_tasks, @),
             !.final_result = or_default(a.final_result, @)]
    ELSE assign_fields(a)

__init__(a, f) ==
    IF a.persist /= NoPath THEN _load_persist(assign_fields(a), f) ELSE assign_fields(a)

----------------------------------------------------------------------------
(* Snapshots used to state the claims *)

Persisted(self) ==
    [stored_info |-> self.stored_info,
     final_result |-> self.final_result,
     current_tasks |-> self.current_tasks,
     completed_tasks |-> self.completed_tasks]

Fields(self) ==
    [stored_info |-> self.stored_info,
     final_result |-> self.final_result,
     current_tasks |-> self.current_tasks,
     completed_tasks |-> self.completed_tasks,
     goal_completed |-> self.goal_completed]

NoDoc == EmptyDict
NoSave ==
    [valid |-> FALSE,
     state |-> [stored_info |-> EmptyDict, final_result |-> EmptyDict,
                current_tasks |-> EmptyList, completed_tasks |-> EmptyDict]]

----------------------------------------------------------------------------
(* Inputs *)

(* The optional arguments are given together or not at all.                 *)
CtorArgs ==
    {[goal |-> g, allow_repeat_tasks |-> ar, persist |-> p,
      current_tasks |-> IF given THEN Some(<<"t1", "t2">>) ELSE None,
      final_result |-> IF given THEN Some([k \in {"colors"} |-> "rgb"]) ELSE None,
      completed_tasks |-> IF given THEN Some([k \in {"t1"} |-> "r1"]) ELSE None] :
        g \in Goals, ar \in BOOLEAN, p \in {NoPath, Path}, given \in BOOLEAN}

(* The files a program may find at its path: none, or a document written    *)
(* earlier, possibly by a version that wrote fewer keys.                    *)
restrict_members(t, K) == <<"obj", SelectSeq(t[2], LAMBDA x : x[1] \in K)>>

InitFiles ==
    {NoFile} \cup
    {[exists |-> TRUE,
      text |-> restrict_members(
                  _save_persist([stored_info |-> IF info THEN [k \in {"username"} |-> "amasad"]
                                                 ELSE EmptyDict,
                                 final_result |-> IF info THEN [k \in {"colors"} |-> "rgb"]
                                                  ELSE EmptyDict,
                                 current_tasks |-> ct, completed_tasks |-> cmp]).text, K)] :
        info \in BOOLEAN,
        ct \in {EmptyList, <<"t2", "t1">>},
        cmp \in {EmptyDict, [k \in {"t2"} |-> "r1"]},
        K \in {PersistKeys, {"stored_info", "current_tasks"}, {}}}

(* Well-formed responses of the model.  A create response holds             *)
(* current_tasks; a refine response holds any of the four fields.           *)
CreateDocs == {[k \in {"current_tasks"} |-> tl] : tl \in TaskLists}

RefineKeys == {"current_tasks", "stored_info", "final_result", "goal_complete"}

Optional(k, V) == {EmptyDict} \cup {k :> v : v \in V}

RefineDocs ==
    {ct @@ si @@ fr @@ gc :
        ct \in Optional("current_tasks", TaskLists),
        si \in Optional("stored_info", InfoDicts),
        fr \in Optional("final_result", ResultDicts),
        gc \in Optional("goal_complete", BOOLEAN)}

----------------------------------------------------------------------------
Init ==
    /\ args \in CtorArgs
    /\ file \in (IF args.persist = NoPath THEN {NoFile} ELSE InitFiles)
    /\ tm = __init__(args, file)
    /\ pc = "idle"
    /\ task = "t1"
    /\ result = "r1"
    /\ attempts = 0
    /\ callbacks = <<>>
    /\ startedDone = FALSE
    /\ iterStart = Fields(tm)
    /\ saved = NoSave
    /\ lastDoc = NoDoc
    /\ lastOp = "init"

----------------------------------------------------------------------------
(* run(), spec.md 4.1: entered on a constructed TaskManager, or again on    *)
(* one whose earlier run() returned.  With CurrentTasks empty it calls      *)
(* createInitialTasks(), which sends the create prompt.                     *)

Run ==
    /\ pc \in {"idle", "done"}
    /\ pc' = IF tm.current_tasks = EmptyList THEN "create" ELSE "loop"
    /\ attempts' = 0
    /\ callbacks' = <<>>
    /\ startedDone' = (tm.current_tasks = EmptyList /\ tm.goal_completed)
    /\ iterStart' = Fields(tm)
    /\ lastDoc' = NoDoc
    /\ lastOp' = "run"
    /\ UNCHANGED <<args, tm, file, task, result, saved>>

(* createInitialTasks(), spec.md 4.1: the response (the first one, or a     *)
(* repaired one) parses; CurrentTasks is populated from it.                 *)

apply_create(self, doc) ==
    [self EXCEPT !.current_tasks = doc["current_tasks"]]

CreateParsed ==
    /\ pc = "create"
    /\ \E doc \in CreateDocs :
          /\ tm' = apply_create(tm, doc)
          /\ lastDoc' = doc
    /\ pc' = "loop"
    /\ iterStart' = Fields(tm')
    /\ lastOp' = "create"
    /\ UNCHANGED <<args, file, task, result, attempts, callbacks, startedDone, saved>>

(* repairJson(badText, error), spec.md 4.1 and 7: the response being parsed *)
(* (the first one, or a repaired one) is not valid JSON.  While repair      *)
(* prompts are left, one more is sent; otherwise the error is fatal.        *)

may_repair_unbounded(n) == TRUE

may_repair(n) == n < MaxRetries

ParseFailed ==
    /\ pc \in {"create", "refine"}
    /\ IF may_repair(attempts)
       THEN /\ attempts' = attempts + 1
            /\ pc' = pc
            /\ lastOp' = "repair"
       ELSE /\ pc' = "fatal"
            /\ lastOp' = "fatal"
            /\ UNCHANGED attempts
    /\ lastDoc' = NoDoc
    /\ UNCHANGED <<args, tm, file, task, result, callbacks, startedDone, iterStart, saved>>

(* executeNextTask(), spec.md 4.1: pops the first task.  Under the          *)
(* repeat-task policy a task that is a key of CompletedTasks is skipped;    *)
(* otherwise the task prompt is sent, its response is the result, and the   *)
(* refine prompt for (task, result) follows.                                *)

is_repeat(self, t) == ~self.allow_repeat_tasks /\ t \in DOMAIN self.completed_tasks

ExecuteNextTask ==
    /\ pc = "loop"
    /\ ~tm.goal_completed
    /\ tm.current_tasks /= EmptyList
    /\ tm' = [tm EXCEPT !.current_tasks = Tail(tm.current_tasks)]
    /\ LET t == Head(tm.current_tasks)
       IN  IF is_repeat(tm, t)
           THEN /\ pc' = "loop"
                /\ iterStart' = Fields(tm')
                /\ lastOp' = "skip"
                /\ UNCHANGED <<task, result>>
           ELSE /\ task' = t
                /\ result' \in Results
                /\ pc' = "refine"
                /\ iterStart' = Fields(tm)
                /\ lastOp' = "execute"
    /\ attempts' = 0
    /\ lastDoc' = NoDoc
    /\ UNCHANGED <<args, file, callbacks, startedDone, saved>>

(* refine(task, result), spec.md 4.1: the response (the first one, or a     *)
(* repaired one) parses; every returned field overwrites the in-memory      *)
(* state and (task -> result) is recorded in CompletedTasks.  run() then    *)
(* persists the state if a path is configured.                              *)

apply_refine_keeps_tasks(self, doc, t, r) ==
    [self EXCEPT
        !.stored_info = get(doc, "stored_info", @),
        !.final_result = get(doc, "final_result", @),
        !.goal_completed = get(doc, "goal_complete", @),
        !.completed_tasks = (t :> r) @@ @]

apply_refine(self, doc, t, r) ==
    [self EXCEPT
        !.current_tasks = get(doc, "current_tasks", @),
        !.stored_info = get(doc, "stored_info", @),
        !.final_result = get(doc, "final_result", @),
        !.goal_completed = get(doc, "goal_complete", @),
        !.completed_tasks = (t :> r) @@ @]

RefineParsed ==
    /\ pc = "refine"
    /\ \E doc \in RefineDocs :
          /\ tm' = apply_refine(tm, doc, task, result)
          /\ lastDoc' = doc
    /\ IF tm'.persist /= NoPath
       THEN /\ file' = _save_persist(tm')
            /\ saved' = [valid |-> TRUE, state |-> Persisted(tm')]
       ELSE UNCHANGED <<file, saved>>
    /\ pc' = "loop"
    /\ iterStart' = Fields(tm')
    /\ lastOp' = "refine"
    /\ UNCHANGED <<args, task, result, attempts, callbacks, startedDone>>

(* run(), spec.md 4.1: on GoalComplete or exhausted tasks the completion    *)
(* callback is invoked with (goal, FinalResult) and run() returns.          *)

Complete ==
    /\ pc = "loop"
    /\ tm.goal_completed \/ tm.current_tasks = EmptyList
    /\ callbacks' = Append(callbacks, [goal |-> tm.final_goal, result |-> tm.final_result])
    /\ pc' = "done"
    /\ lastDoc' = NoDoc
    /\ lastOp' = "complete"
    /\ UNCHANGED <<args, tm, file, task, result, attempts, startedDone, iterStart, saved>>

(* The program is started again after run() returned or raised: a new       *)
(* TaskManager is constructed with the same arguments (L128-161).           *)

Restart ==
    /\ pc \in {"done", "fatal"}
    /\ tm' = __init__(args, file)
    /\ pc' = "idle"
    /\ attempts' = 0
    /\ callbacks' = <<>>
    /\ startedDone' = FALSE
    /\ iterStart' = Fields(tm')
    /\ lastDoc' = NoDoc
    /\ lastOp' = "init"
    /\ UNCHANGED <<args, file, task, result, saved>>

Next ==
    \/ Run
    \/ CreateParsed
    \/ ParseFailed
    \/ ExecuteNextTask
    \/ RefineParsed
    \/ Complete
    \/ Restart

Spec == Init /\ [][Next]_vars

----------------------------------------------------------------------------
(* Properties *)

AllEmpty ==
    [stored_info |-> EmptyDict, final_result |-> EmptyDict,
     current_tasks |-> EmptyList, completed_tasks |-> EmptyDict]

Running == pc \in {"create", "loop", "refine"}

(* C1: with allow_repeat_tasks given as false, a step of executeNextTask   *)
(* whose first task is already a key of CompletedTasks pops that task and   *)
(* does not execute it: no task prompt is sent, run() stays at the loop     *)
(* head.                                                                    *)
C1_RepeatSkipped ==
    [][ ( /\ ~args.allow_repeat_tasks
          /\ pc = "loop"
          /\ ~tm.goal_completed
          /\ tm.current_tasks /= EmptyList
          /\ Head(tm.current_tasks) \in DOMAIN tm.completed_tasks )
        => ( /\ pc' = "loop"
             /\ lastOp' = "skip"
             /\ tm'.current_tasks = Tail(tm.current_tasks) ) ]_vars

C1_Witness ==
    /\ ~args.allow_repeat_tasks
    /\ lastOp = "skip"
    /\ iterStart.completed_tasks /= EmptyDict

(* C2: a TaskManager constructed on the path that _save_persist last wrote  *)
(* holds StoredInfo, FinalResult, CurrentTasks (in order) and               *)
(* CompletedTasks equal to the saved ones.                                  *)
C2_RoundTrip ==
    (lastOp = "init" /\ tm.persist /= NoPath /\ saved.valid)
        => Persisted(tm) = saved.state

C2_Witness ==
    /\ lastOp = "init"
    /\ tm.persist /= NoPath
    /\ saved.valid
    /\ saved.state.current_tasks = <<"t2", "t1">>
    /\ saved.state.stored_info /= EmptyDict
    /\ saved.state.final_result /= EmptyDict
    /\ DOMAIN saved.state.completed_tasks = Tasks

(* C3: a run() entered with no task and GoalComplete set sends no create,   *)
(* execute or refine prompt, and returns after one completion callback      *)
(* with the current FinalResult.                                            *)
C3_ImmediateCompletion ==
    startedDone =>
        /\ pc \in {"loop", "done"}
        /\ lastOp \in {"run", "complete"}
        /\ pc = "done" =>
              callbacks = <<[goal |-> args.goal, result |-> tm.final_result]>>

(* C4: after a fatal parse error every field equals its value when the      *)
(* loop iteration began, the popped task included.                          *)
C4_FatalPreservesState ==
    pc = "fatal" => Fields(tm) = iterStart

(* C5: a malformed response changes no field; when the repair response      *)
(* that follows it parses, run() continues at the loop head with exactly    *)
(* the fields of that response applied.                                     *)
C5_Malformed == pc \in {"create", "refine"} /\ attempts' = attempts + 1

C5_Repaired == pc \in {"create", "refine"} /\ attempts > 0 /\ pc' = "loop"

C5_Applied ==
    /\ lastOp' = pc
    /\ tm'.current_tasks = get(lastDoc', "current_tasks", tm.current_tasks)
    /\ tm'.stored_info = get(lastDoc', "stored_info", tm.stored_info)
    /\ tm'.final_result = get(lastDoc', "final_result", tm.final_result)
    /\ tm'.goal_completed = get(lastDoc', "goal_complete", tm.goal_completed)
    /\ IF pc = "create"
       THEN /\ DOMAIN lastDoc' = {"current_tasks"}
            /\ tm'.completed_tasks = tm.completed_tasks
       ELSE /\ DOMAIN tm'.completed_tasks = DOMAIN tm.completed_tasks \cup {task}
            /\ tm'.completed_tasks[task] = result
            /\ \A t \in DOMAIN tm.completed_tasks \ {task} :
                  tm'.completed_tasks[t] = tm.completed_tasks[t]

C5_RepairedResponseApplied ==
    [][ /\ C5_Malformed => (tm' = tm /\ file' = file /\ pc' = pc)
        /\ C5_Repaired => C5_Applied ]_vars

C5_Witness ==
    /\ lastOp = "refine"
    /\ attempts > 0
    /\ DOMAIN lastDoc = RefineKeys
    /\ tm.current_tasks /= EmptyList

(* C6: no more than MaxRetries repair prompts are sent for one response; a  *)
(* fatal error comes only when all of them failed, leaves the callback      *)
(* uninvoked, and ends the run.                                             *)
C6_BoundedRepair ==
    /\ [](attempts <= MaxRetries)
    /\ [](pc = "fatal" => (attempts = MaxRetries /\ callbacks = <<>>))
    /\ [][pc = "fatal" => (pc' \in {"fatal", "idle"} /\ callbacks' = <<>>)]_vars

C6_Witness ==
    /\ pc = "fatal"
    /\ attempts = MaxRetries
    /\ lastOp = "fatal"

(* C7: the completion callback is not invoked while the loop runs; when     *)
(* run() has left the loop it has been invoked exactly once, with the goal  *)
(* given at construction and the FinalResult in memory, which only a        *)
(* refine step writes during a run.                                         *)
C7_CallbackOnce ==
    /\ [](Running => callbacks = <<>>)
    /\ [](pc = "done" =>
            callbacks = <<[goal |-> args.goal, result |-> tm.final_result]>>)
    /\ [][(Running /\ tm'.final_result /= tm.final_result) => lastOp' = "refine"]_vars
    /\ [][(lastOp' = "complete" /\ lastOp /= "complete") =>
            (pc = "loop" /\ (tm.goal_completed \/ tm.current_tasks = EmptyList))]_vars

C7_Witness ==
    /\ pc = "done"
    /\ tm.goal_completed
    /\ tm.current_tasks /= EmptyList
    /\ callbacks = <<[goal |-> "list three colors",
                      result |-> [k \in {"colors"} |-> "rgb"]]>>

(* C8: constructed with a persistence path whose file does not exist, the   *)
(* TaskManager starts with StoredInfo, FinalResult, CurrentTasks and        *)
(* CompletedTasks empty.                                                    *)
C8_MissingFileStartsEmpty ==
    (lastOp = "init" /\ args.persist /= NoPath /\ ~file.exists)
        => (pc = "idle" /\ Persisted(tm) = AllEmpty)

C8_Witness ==
    /\ lastOp = "init"
    /\ args.persist /= NoPath
    /\ ~file.exists
    /\ ~args.current_tasks.none
    /\ Persisted(tm) = AllEmpty

(* C9 as stated: with a persistence path, after every completed refine     *)
(* step the file holds exactly the in-memory state, and at the start of     *)
(* every loop iteration the file and the in-memory state agree.             *)
FileHolds(self) == file.exists /\ json_load(file.text) = Persisted(self)

FileAgrees(self) == Persisted(_load_persist(self, file)) = Persisted(self)

IterationStart == pc = "loop" /\ ~tm.goal_completed /\ tm.current_tasks /= EmptyList

C9_FileAgreesEachIteration ==
    tm.persist /= NoPath =>
        /\ lastOp = "refine" => FileHolds(tm)
        /\ IterationStart => FileAgrees(tm)

(* C9, amended: with a persistence path, after every completed refine step  *)
(* the file holds exactly the in-memory state, so the file and the memory   *)
(* agree at the start of a loop iteration that directly follows a refine.   *)
C9_FileAgreesAfterRefine ==
    (tm.persist /= NoPath /\ lastOp = "refine") =>
        /\ pc = "loop"
        /\ FileHolds(tm)
        /\ FileAgrees(tm)

C9_Witness ==
    /\ tm.persist /= NoPath
    /\ lastOp = "refine"
    /\ ~tm.goal_completed
    /\ Len(tm.current_tasks) = 2
    /\ tm.completed_tasks /= EmptyDict
    /\ FileHolds(tm)

(* C10: after construction with a persistence path each persisted field is  *)
(* the file's value, or empty for a key the file lacks or a missing file,   *)
(* whatever the arguments; without a path the arguments are kept and        *)
(* StoredInfo is empty.                                                     *)
FromFile(k) ==
    IF file.exists /\ k \in DOMAIN json_load(file.text)
    THEN json_load(file.text)[k]
    ELSE <<>>

FromArgument(x) == IF x.none THEN <<>> ELSE x.v

C10_StateFromFile ==
    lastOp = "init" =>
        IF args.persist /= NoPath
        THEN \A k \in PersistKeys : Persisted(tm)[k] = FromFile(k)
        ELSE /\ tm.current_tasks = FromArgument(args.current_tasks)
             /\ tm.final_result = FromArgument(args.final_result)
             /\ tm.completed_tasks = FromArgument(args.completed_tasks)
             /\ tm.stored_info = EmptyDict

C10_Witness ==
    /\ lastOp = "init"
    /\ args.persist /= NoPath
    /\ ~args.current_tasks.none
    /\ file.exists
    /\ DOMAIN json_load(file.text) = {"stored_info", "current_tasks"}
    /\ tm.current_tasks = <<"t2", "t1">>
    /\ tm.final_result = EmptyDict
    /\ tm.completed_tasks = EmptyDict

====
